---- MODULE Spec2Model ----
\* Model of the DFS backend of IOR (src/src/aiori-DFS.c): the collective
\* operations DFS_Init / HandleDistribute, DFS_Create, DFS_Xfer,
\* DFS_GetFileSize and DFS_Finalize, run by NumRanks MPI ranks.  Rank 0 is
\* the coordinator.  The storage engine (the daos and dfs calls) and MPI are
\* the environment: every engine call may fail, MPI_Barrier and MPI_Allreduce
\* complete only when every rank of the communicator has entered them, and
\* MPI_Bcast delivers the root's buffer to every rank that enters it.
EXTENDS Integers, Sequences, FiniteSets, TLC

\* ---------------------------------------------------------------- bounds
NumRanks == 3
MaxLen == 3
MaxSize == 2
MaxUuid == 2
MAX_RETRY == 1
MaxOffset == 1
MaxPath == 4
\* errno value of "out of memory"
ENOMEM == 12
\* daos error number of "entity does not exist"
DER_NONEXIST == 1005

Ranks == 0 .. (NumRanks - 1)
Peers == Ranks \ {0}
\* a null pointer; an object handle is the one-element sequence <<file>>
NULL == <<>>
\* return codes of the engine: 0 is success, negative is a DER error
RcSet == {0, -1}

VARIABLES
    op,          \* the operation all ranks are running
    pc,          \* pc[r]: position of rank r in the operation
    runAborted,  \* MPI_Abort was called: every rank is gone
    rc,          \* rc[r]: the local variable rc of rank r
    \* ---- DFS_Create
    filePerProc, \* param->filePerProc
    barrier,     \* ranks that have entered MPI_Barrier(testComm)
    fileExists,  \* engine: the files that exist under the parent
    nExcl,       \* nExcl[r]: dfs_open calls with O_CREAT|O_EXCL issued by r
    nPlain,      \* nPlain[r]: dfs_open calls without O_CREAT issued by r
    obj,         \* obj[r]: the object handle DFS_Create returns on r
    \* ---- parse_filename (one call)
    path,        \* the path argument, a sequence of characters
    cwd,         \* what getcwd returns
    parsed,      \* rc and the two output strings, once the call is over
    \* ---- DFS_Mkdir
    retval,      \* the int each rank returned
    \* ---- DFS_Xfer (one rank's call)
    xpc,         \* position in DFS_Xfer
    access,      \* WRITE or READ
    length,      \* the requested length
    singleXferAttempt, \* param->singleXferAttempt
    remaining,   \* bytes still to transfer
    ptr,         \* the buffer cursor, as an index from the start of buffer
    xferRetries, \* the retry counter
    ret,         \* the byte count of the last attempt
    xrc,         \* rc of the last dfs_write / dfs_read
    attempts,    \* dfs_write / dfs_read calls made by this DFS_Xfer
    chunks,      \* the ret values subtracted from remaining, in order
    result,      \* the value DFS_Xfer returned
    offset,      \* param->offset
    lastOff,     \* the file offset handed to the last dfs_write / dfs_read
    buffer,      \* read: for each buffer byte, the file position it holds
    \* ---- DFS_GetFileSize
    localSize,   \* engine: the size dfs_get_size reports to rank r
    fsize,       \* fsize[r]: the local variable fsize
    entered1,    \* ranks that have entered the first MPI_Allreduce
    send1,       \* send1[r]: what rank r contributed to it
    entered2,    \* ranks that have entered the second MPI_Allreduce
    send2,       \* send2[r]: what rank r contributed to it
    tmpMin,      \* tmpMin[r]
    tmpMax,      \* tmpMax[r]
    warned,      \* WARN("inconsistent file size by different tasks") calls
    gresult,     \* gresult[r]: the value DFS_GetFileSize returned on r
    \* ---- the session: DFS_Init, HandleDistribute, DFS_Finalize
    optsSet,     \* o.pool, o.svcl and o.cont are all non-NULL
    oPool,       \* o.pool: the pool uuid
    oCont,       \* o.cont: the container uuid
    destroy,     \* o.destroy
    poh,         \* poh[r]: the global pool handle of process r
    coh,         \* coh[r]: the global container handle of process r
    dfs,         \* dfs[r]: the mount of process r: the handles it was made of
    poolConn,    \* engine: processes connected to the pool
    contOpen,    \* engine: processes that hold the container open
    contExists,  \* engine: the container exists in the pool
    mounted,     \* engine: processes with a mounted DFS namespace
    hdType,      \* hdType[r]: the type argument of r's HandleDistribute call
    glob,        \* glob[r]: the d_iov_t global of r's HandleDistribute call
    lenSlot,     \* lenSlot[t]: what MPI_Bcast of the length delivers, once sent
    bufSlot,     \* bufSlot[t]: what MPI_Bcast of the buffer delivers, once sent
    rcSlot,      \* what MPI_Bcast(&rc) of DFS_Finalize delivers, once sent
    destroyRc    \* engine: what daos_cont_destroy returned, once called

createVars == <<filePerProc, barrier, fileExists, nExcl, nPlain, obj>>
xferVars == <<xpc, access, length, singleXferAttempt, remaining, ptr,
              xferRetries, ret, xrc, attempts, chunks, result, offset,
              lastOff, buffer>>
sizeVars == <<localSize, fsize, entered1, send1, entered2, send2, tmpMin,
              tmpMax, warned, gresult>>
sessionVars == <<optsSet, oPool, oCont, destroy, poh, coh, dfs, poolConn,
                 contOpen, contExists, mounted, hdType, glob, lenSlot, bufSlot,
                 rcSlot, destroyRc>>
parseVars == <<path, cwd, parsed>>
vars == <<op, pc, runAborted, rc, createVars, parseVars, retval, xferVars,
          sizeVars, sessionVars>>

\* ------------------------------------------------------------- macros
\* DCHECK / DERR take the error branch when rc < 0
IsErr(c) == c < 0

At(r, l) == ~runAborted /\ pc[r] = l
Goto(r, l) == pc' = [pc EXCEPT ![r] = l]

\* the variables of an operation that is not the one being run
ParseIdle ==
    /\ path = <<>> /\ cwd = <<>> /\ parsed = <<>>
    /\ retval = [r \in Ranks |-> 0]
IdleRanks == pc = [r \in Ranks |-> "idle"] /\ rc = [r \in Ranks |-> 0]
CreateIdle ==
    /\ barrier = {} /\ fileExists = {}
    /\ nExcl = [r \in Ranks |-> 0] /\ nPlain = [r \in Ranks |-> 0]
    /\ obj = [r \in Ranks |-> NULL]
\* no engine call made yet / a buffer byte nothing was read into
NoOffset == -1
XferIdle ==
    /\ xpc = "idle" /\ access = "READ" /\ length = 0
    /\ singleXferAttempt = FALSE /\ remaining = 0 /\ ptr = 0
    /\ xferRetries = 0 /\ ret = 0 /\ xrc = 0 /\ attempts = 0
    /\ chunks = <<>> /\ result = 0
    /\ offset = 0 /\ lastOff = NoOffset /\ buffer = <<>>
SizeIdle ==
    /\ localSize = [r \in Ranks |-> 0] /\ fsize = [r \in Ranks |-> 0]
    /\ entered1 = {} /\ send1 = [r \in Ranks |-> 0]
    /\ entered2 = {} /\ send2 = [r \in Ranks |-> 0]
    /\ tmpMin = [r \in Ranks |-> 0] /\ tmpMax = [r \in Ranks |-> 0]
    /\ warned = 0 /\ gresult = [r \in Ranks |-> 0]

\* handles: a local handle belongs to the process that made it and names
\* what it refers to; the zero handle refers to nothing
NoHandle == [kind |-> "none", owner |-> 0, pool |-> 0, cont |-> 0]
PoolHandle(r, p) == [kind |-> "pool", owner |-> r, pool |-> p, cont |-> 0]
ContHandle(r, p, c) == [kind |-> "cont", owner |-> r, pool |-> p, cont |-> c]
NoGlob == [len |-> 0, buf |-> <<>>]
HandleTypes == {"POOL_HANDLE", "CONT_HANDLE"}

\* the session as DFS_Init leaves it on every process
SessionUp ==
    /\ optsSet = TRUE /\ oPool = 1 /\ oCont = 1
    /\ poh = [r \in Ranks |-> PoolHandle(r, 1)]
    /\ coh = [r \in Ranks |-> ContHandle(r, 1, 1)]
    /\ dfs = [r \in Ranks |-> <<PoolHandle(r, 1), ContHandle(r, 1, 1)>>]
    /\ poolConn = Ranks /\ contOpen = Ranks /\ contExists = TRUE
    /\ mounted = Ranks
    /\ hdType = [r \in Ranks |-> "POOL_HANDLE"]
    /\ glob = [r \in Ranks |-> NoGlob]
    /\ lenSlot = [t \in HandleTypes |-> <<>>]
    /\ bufSlot = [t \in HandleTypes |-> <<>>]
    /\ rcSlot = <<>> /\ destroyRc = <<>>
SessionIdle == SessionUp /\ destroy = FALSE

\* ------------------------------------------------------------- parse_filename
\* strings are sequences of characters; the alphabet has the separator, the
\* dot and one ordinary character
Chars == {"/", ".", "a"}
Paths == UNION {[1 .. n -> Chars] : n \in 0 .. MaxPath}
\* getcwd gives an absolute path without a trailing separator, or "/"
Cwds == {<<"/">>, <<"/", "a">>}

\* strrchr(p, '/') within the first n characters: 0 when there is none
LastSlash(p, n) ==
    LET S == {i \in 1 .. n : p[i] = "/"}
    IN  IF S = {} THEN 0 ELSE CHOOSE i \in S : \A j \in S : j <= i
\* the length of the first n characters without their trailing separators
TrimSlashes(p, n) ==
    LET S == {i \in 1 .. n : p[i] # "/"}
    IN  IF S = {} THEN 0 ELSE CHOOSE i \in S : \A j \in S : j <= i

\* basename(3) of libgen.h
basename(p) ==
    LET n == Len(p)
        ls == LastSlash(p, n)
        k == TrimSlashes(p, n)
    IN  IF n = 0 THEN <<".">>
        ELSE IF ls = 0 THEN p
        ELSE IF ls = n
             THEN IF k > 0 THEN SubSeq(p, LastSlash(p, k) + 1, k) ELSE <<"/">>
        ELSE SubSeq(p, ls + 1, n)

\* dirname(3)
dirname(p) ==
    LET n == Len(p)
        ls0 == LastSlash(p, n)
        ls == IF ls0 > 1 /\ ls0 = n /\ TrimSlashes(p, n) > 0
              THEN LastSlash(p, TrimSlashes(p, n))
              ELSE ls0
        k == TrimSlashes(p, ls)
    IN  IF ls = 0 THEN <<".">>
        ELSE IF k = 0 THEN (IF ls = 2 THEN <<"/", "/">> ELSE <<"/">>)
        ELSE SubSeq(p, 1, k)

\* strlen(cwd) + strlen(cont_name) + 1 bytes are allocated for new_dir
NewDirSize(cont_name) == Len(cwd) + Len(cont_name) + 1
\* strcpy(new_dir, cwd) and the strcat calls: the string built in new_dir
NewDir(cont_name) ==
    IF cont_name[1] = "."
    THEN cwd \o Tail(cont_name)
    ELSE cwd \o <<"/">> \o cont_name
\* the bytes the string and its terminator take
Written(str) == Len(str) + 1

\* the heap after new_dir was filled: writing past the allocation is
\* undefined, it may go unnoticed or corrupt the allocator's data
HeapOutcomes(cont_name) ==
    IF Written(NewDir(cont_name)) > NewDirSize(cont_name)
    THEN {"intact", "corrupted"}
    ELSE {"intact"}

\* the parent the function stores in *_cont_name
ContName(cont_name) ==
    IF cont_name[1] = "." \/ cont_name[1] # "/"
    THEN IF cont_name = <<".">> THEN cwd ELSE NewDir(cont_name)
    ELSE cont_name
\* calloc is reached
UsesNewDir(cont_name) ==
    (cont_name[1] = "." \/ cont_name[1] # "/") /\ cont_name # <<".">>

Parsed(c, o, d, h) == [rc |-> c, obj_name |-> o, cont_name |-> d, heap |-> h]

InitParse ==
    /\ op = "Parse"
    /\ path \in Paths /\ cwd \in Cwds /\ parsed = <<>>
    /\ retval = [r \in Ranks |-> 0]
    /\ IdleRanks /\ runAborted = FALSE /\ filePerProc = FALSE
    /\ CreateIdle /\ XferIdle /\ SizeIdle /\ SessionIdle

\* what parse_filename(path, &obj_name, &cont_name) can give with non-NULL
\* arguments: strdup, calloc and getcwd may fail; the root path gets the
\* parent "/" and *_obj_name = NULL
ParseOutcomes ==
    {Parsed(-ENOMEM, NULL, NULL, "intact")} \cup
    IF path = <<"/">>
    THEN {Parsed(0, NULL, <<"/">>, "intact")}
    ELSE LET fname == basename(path)
             cont_name == dirname(path)
         IN  {Parsed(0, fname, ContName(cont_name), h) :
                h \in (IF UsesNewDir(cont_name)
                       THEN HeapOutcomes(cont_name) ELSE {"intact"})}

\* the paths the file and directory operations are called with
OpPaths == {<<"/">>, <<"a">>, <<"/", "a">>}
\* the arguments of an operation's parse_filename call
OpPathInit ==
    /\ path \in OpPaths /\ cwd \in Cwds /\ parsed = <<>>
    /\ retval = [r \in Ranks |-> 0]

\* assert(dir_name); assert(name);
AssertNames(o) == o.cont_name # NULL /\ o.obj_name # NULL

\* one call of parse_filename
parse_filename ==
    /\ op = "Parse" /\ parsed = <<>>
    /\ \E o \in ParseOutcomes : parsed' = <<o>>
    /\ UNCHANGED <<sessionVars, xferVars, sizeVars, createVars, op, pc,
                   runAborted, rc, path, cwd, retval>>

NextParse == parse_filename

\* ------------------------------------------------------------- DFS_Create
\* the file rank r targets: one file per rank, or the one shared file
TargetFile(r) == IF filePerProc THEN r ELSE 0

InitCreate ==
    /\ op = "Create"
    /\ OpPathInit
    /\ pc = [r \in Ranks |-> "c_parse"]
    /\ runAborted = FALSE
    /\ rc = [r \in Ranks |-> 0]
    /\ filePerProc \in BOOLEAN
    /\ barrier = {}
    /\ fileExists \in {{}, {0}}
    /\ nExcl = [r \in Ranks |-> 0]
    /\ nPlain = [r \in Ranks |-> 0]
    /\ obj = [r \in Ranks |-> NULL]
    /\ XferIdle /\ SizeIdle /\ SessionIdle

\* rc = parse_filename(...); DERR(rc, ...); assert(dir_name); assert(name);
\* a failing assertion is abort()
Create_parse_filename(r) ==
    /\ At(r, "c_parse")
    /\ \E o \in ParseOutcomes :
        /\ rc' = [rc EXCEPT ![r] = o.rc]
        /\ Goto(r, IF IsErr(o.rc) THEN "c_done"
                   ELSE IF ~AssertNames(o) THEN "c_assert_failed"
                   ELSE "c_lookup")
    /\ UNCHANGED <<sessionVars, parseVars, retval, xferVars, sizeVars, op, runAborted, createVars>>

\* mutants of the branch: peers open without the barrier; every rank creates
CreateBranch_NoBarrier(r) == IF filePerProc \/ r = 0 THEN "c_create" ELSE "c_open"
CreateBranch_AllCreate(r) == "c_create"
\* if (param->filePerProc || rank == 0) { create, barrier } else { barrier, open }
CreateBranch(r) == IF filePerProc \/ r = 0 THEN "c_create" ELSE "c_barrier"

\* rc = dfs_lookup(dfs, dir_name, ...); DERR(rc, ...)
Create_dfs_lookup(r) ==
    /\ At(r, "c_lookup")
    /\ \E c \in RcSet :
        /\ rc' = [rc EXCEPT ![r] = c]
        /\ Goto(r, IF IsErr(c) THEN "c_done" ELSE CreateBranch(r))
    /\ UNCHANGED <<sessionVars, parseVars, retval, xferVars, sizeVars, op, runAborted, createVars>>

\* the call of dfs_open(..., O_CREAT | O_RDWR | O_EXCL, ...) is issued
Create_dfs_open_excl_call(r) ==
    /\ At(r, "c_create")
    /\ nExcl' = [nExcl EXCEPT ![r] = @ + 1]
    /\ Goto(r, "c_creating")
    /\ UNCHANGED <<sessionVars, parseVars, retval, xferVars, sizeVars, op, runAborted, rc, filePerProc, barrier, fileExists, nPlain, obj>>

\* the exclusive create returns; DERR(rc, ...) skips the barrier on failure
Create_dfs_open_excl_ret(r) ==
    /\ At(r, "c_creating")
    /\ \E c \in RcSet :
        /\ (TargetFile(r) \in fileExists) => IsErr(c)
        /\ rc' = [rc EXCEPT ![r] = c]
        /\ IF IsErr(c)
           THEN /\ Goto(r, "c_done")
                /\ UNCHANGED <<fileExists, obj>>
           ELSE /\ Goto(r, "c_barrier")
                /\ fileExists' = fileExists \cup {TargetFile(r)}
                /\ obj' = [obj EXCEPT ![r] = <<TargetFile(r)>>]
    /\ UNCHANGED <<sessionVars, parseVars, retval, xferVars, sizeVars, op, runAborted, filePerProc, barrier, nExcl, nPlain>>

\* MPI_Barrier(testComm): the rank enters the barrier
Create_MPI_Barrier_enter(r) ==
    /\ At(r, "c_barrier")
    /\ barrier' = barrier \cup {r}
    /\ Goto(r, "c_inbarrier")
    /\ UNCHANGED <<sessionVars, parseVars, retval, xferVars, sizeVars, op, runAborted, rc, filePerProc, fileExists, nExcl, nPlain, obj>>

\* the barrier is complete when every rank of the communicator has entered
BarrierComplete(r) == barrier = Ranks

\* MPI_Barrier returns
Create_MPI_Barrier_leave(r) ==
    /\ At(r, "c_inbarrier")
    /\ BarrierComplete(r)
    /\ Goto(r, IF filePerProc \/ r = 0 THEN "c_done" ELSE "c_open")
    /\ UNCHANGED <<sessionVars, parseVars, retval, xferVars, sizeVars, op, runAborted, rc, createVars>>

\* fd_oflag |= O_RDWR; rc = dfs_open(...); DERR(rc, ...)
Create_dfs_open(r) ==
    /\ At(r, "c_open")
    /\ nPlain' = [nPlain EXCEPT ![r] = @ + 1]
    /\ \E c \in RcSet :
        /\ (TargetFile(r) \notin fileExists) => IsErr(c)
        /\ rc' = [rc EXCEPT ![r] = c]
        /\ obj' = [obj EXCEPT ![r] = IF IsErr(c) THEN NULL ELSE <<TargetFile(r)>>]
    /\ Goto(r, "c_done")
    /\ UNCHANGED <<sessionVars, parseVars, retval, xferVars, sizeVars, op, runAborted, filePerProc, barrier, fileExists, nExcl>>

NextCreate ==
    \E r \in Ranks :
        \/ Create_parse_filename(r)
        \/ Create_dfs_lookup(r)
        \/ Create_dfs_open_excl_call(r)
        \/ Create_dfs_open_excl_ret(r)
        \/ Create_MPI_Barrier_enter(r)
        \/ Create_MPI_Barrier_leave(r)
        \/ Create_dfs_open(r)

\* ------------------------------------------------------------- DFS_Open
\* every rank opens the file TargetFile(r) of the test
InitOpen ==
    /\ op = "Open"
    /\ OpPathInit
    /\ pc = [r \in Ranks |-> "o_parse"]
    /\ runAborted = FALSE
    /\ rc = [r \in Ranks |-> 0]
    /\ filePerProc \in BOOLEAN
    /\ barrier = {}
    /\ fileExists \in {{}, {0}, Ranks}
    /\ nExcl = [r \in Ranks |-> 0]
    /\ nPlain = [r \in Ranks |-> 0]
    /\ obj = [r \in Ranks |-> NULL]
    /\ XferIdle /\ SizeIdle /\ SessionIdle

\* rc = parse_filename(testFileName, &name, &dir_name); DERR(rc, ...)
\* assert(dir_name); assert(name);
Open_parse_filename(r) ==
    /\ At(r, "o_parse")
    /\ \E o \in ParseOutcomes :
        /\ rc' = [rc EXCEPT ![r] = o.rc]
        /\ Goto(r, IF IsErr(o.rc) THEN "o_done"
                   ELSE IF ~AssertNames(o) THEN "o_assert_failed"
                   ELSE "o_lookup")
    /\ UNCHANGED <<sessionVars, parseVars, retval, xferVars, sizeVars, op, runAborted, createVars>>

\* rc = dfs_lookup(dfs, dir_name, O_RDWR, &parent, &pmode); DERR(rc, ...)
Open_dfs_lookup(r) ==
    /\ At(r, "o_lookup")
    /\ \E c \in RcSet :
        /\ rc' = [rc EXCEPT ![r] = c]
        /\ Goto(r, IF IsErr(c) THEN "o_done" ELSE "o_open")
    /\ UNCHANGED <<sessionVars, parseVars, retval, xferVars, sizeVars, op, runAborted, createVars>>

\* rc = dfs_open(dfs, parent, name, mode, O_RDWR, ...); DERR(rc, ...);
\* out: return ((void *)obj)
Open_dfs_open(r) ==
    /\ At(r, "o_open")
    /\ nPlain' = [nPlain EXCEPT ![r] = @ + 1]
    /\ \E c \in RcSet :
        /\ (TargetFile(r) \notin fileExists) => IsErr(c)
        /\ rc' = [rc EXCEPT ![r] = c]
        /\ obj' = [obj EXCEPT ![r] = IF IsErr(c) THEN NULL ELSE <<TargetFile(r)>>]
    /\ Goto(r, "o_done")
    /\ UNCHANGED <<sessionVars, parseVars, retval, xferVars, sizeVars, op, runAborted,
                   filePerProc, barrier, fileExists, nExcl>>

NextOpen ==
    \E r \in Ranks :
        \/ Open_parse_filename(r)
        \/ Open_dfs_lookup(r)
        \/ Open_dfs_open(r)

\* ------------------------------------------------------------- DFS_Mkdir
InitMkdir ==
    /\ op = "Mkdir"
    /\ OpPathInit
    /\ pc = [r \in Ranks |-> "m_parse"]
    /\ runAborted = FALSE
    /\ rc = [r \in Ranks |-> 0]
    /\ filePerProc \in BOOLEAN
    /\ CreateIdle /\ XferIdle /\ SizeIdle /\ SessionIdle

\* out: ... if (rc) return -1; return rc;
Mkdir_out(r, c) ==
    /\ Goto(r, "m_done")
    /\ retval' = [retval EXCEPT ![r] = IF c # 0 THEN -1 ELSE c]

\* rc = parse_filename(path, &name, &dir_name); DERR(rc, ...)
\* assert(dir_name); assert(name);
Mkdir_parse_filename(r) ==
    /\ At(r, "m_parse")
    /\ \E o \in ParseOutcomes :
        /\ rc' = [rc EXCEPT ![r] = o.rc]
        /\ IF IsErr(o.rc) THEN Mkdir_out(r, o.rc)
           ELSE /\ Goto(r, IF ~AssertNames(o) THEN "m_assert_failed"
                           ELSE "m_lookup")
                /\ UNCHANGED retval
    /\ UNCHANGED <<sessionVars, parseVars, xferVars, sizeVars, op, runAborted,
                   createVars>>

\* rc = dfs_lookup(dfs, dir_name, O_RDWR, &parent, &pmode); DERR(rc, ...)
Mkdir_dfs_lookup(r) ==
    /\ At(r, "m_lookup")
    /\ \E c \in RcSet :
        /\ rc' = [rc EXCEPT ![r] = c]
        /\ IF IsErr(c) THEN Mkdir_out(r, c)
           ELSE Goto(r, "m_mkdir") /\ UNCHANGED retval
    /\ UNCHANGED <<sessionVars, parseVars, xferVars, sizeVars, op, runAborted,
                   createVars>>

\* rc = dfs_mkdir(dfs, parent, name, mode); DERR(rc, ...); out:
Mkdir_dfs_mkdir(r) ==
    /\ At(r, "m_mkdir")
    /\ \E c \in RcSet :
        /\ rc' = [rc EXCEPT ![r] = c]
        /\ Mkdir_out(r, c)
    /\ UNCHANGED <<sessionVars, parseVars, xferVars, sizeVars, op, runAborted,
                   createVars>>

NextMkdir ==
    \E r \in Ranks :
        \/ Mkdir_parse_filename(r)
        \/ Mkdir_dfs_lookup(r)
        \/ Mkdir_dfs_mkdir(r)

\* ------------------------------------------------------------- DFS_Xfer
\* what an unsigned 64-bit ret can hold besides a count within the request:
\* any larger value is represented by MaxLen + 1
RetValues == 0 .. (MaxLen + 1)

InitXfer ==
    /\ op = "Xfer"
    /\ ParseIdle
    /\ IdleRanks /\ runAborted = FALSE /\ CreateIdle /\ SizeIdle /\ SessionIdle
    /\ filePerProc = FALSE
    /\ xpc = "x_loop"
    /\ access \in {"WRITE", "READ"}
    /\ length \in 0 .. MaxLen
    /\ singleXferAttempt \in BOOLEAN
    /\ remaining = length
    /\ ptr = 0
    /\ xferRetries = 0
    /\ ret \in RetValues        \* daos_size_t ret; is not initialized
    /\ xrc = 0
    /\ attempts = 0
    /\ chunks = <<>>
    /\ result = 0
    /\ offset \in 0 .. MaxOffset
    /\ lastOff = NoOffset
    /\ buffer = [i \in 1 .. length |-> NoOffset]

\* the offset argument of dfs_write / dfs_read: param->offset, which no
\* statement of the loop changes
XferOffset == offset

\* d_iov_set(&iov, (void *)ptr, remaining) and a read of n bytes at file
\* offset off: buffer bytes ptr .. ptr+n-1 receive file bytes off .. off+n-1
ReadInto(b, off, n) ==
    [i \in DOMAIN b |->
        IF i > ptr /\ i <= ptr + n THEN off + (i - ptr - 1) ELSE b[i]]

\* rc = dfs_write(dfs, obj, sgl, param->offset): on failure return -1,
\* otherwise ret = remaining
Xfer_dfs_write ==
    /\ ~runAborted /\ xpc = "x_loop" /\ remaining > 0 /\ access = "WRITE"
    /\ attempts' = attempts + 1
    /\ \E c \in RcSet :
        /\ xrc' = c
        /\ IF c # 0
           THEN xpc' = "x_returned" /\ result' = -1 /\ ret' = ret
           ELSE xpc' = "x_check" /\ result' = result /\ ret' = remaining
    /\ lastOff' = XferOffset
    /\ UNCHANGED <<sessionVars, parseVars, retval, sizeVars, op, pc, runAborted, rc, createVars, access, length,
                   singleXferAttempt, remaining, ptr, xferRetries, chunks,
                   offset, buffer>>

\* rc = dfs_read(dfs, obj, sgl, param->offset, &ret): a successful read
\* stores a count of at most the iov length in ret; a failed read is only
\* reported on stderr and ret keeps whatever it held
Xfer_dfs_read ==
    /\ ~runAborted /\ xpc = "x_loop" /\ remaining > 0 /\ access = "READ"
    /\ attempts' = attempts + 1
    /\ \E c \in RcSet :
        /\ xrc' = c
        /\ IF c = 0
           THEN \E n \in 0 .. remaining :
                    /\ ret' = n
                    /\ buffer' = ReadInto(buffer, XferOffset, n)
           ELSE ret' = ret /\ buffer' = buffer
    /\ lastOff' = XferOffset
    /\ xpc' = "x_check"
    /\ UNCHANGED <<sessionVars, parseVars, retval, sizeVars, op, pc, runAborted, rc, createVars, access, length,
                   singleXferAttempt, remaining, ptr, xferRetries, chunks, result,
                   offset>>

\* mutant of the retry test: one more retry before giving up
TooManyRetries_Late == xferRetries > MAX_RETRY + 1
\* mutant of the retry test: >= instead of >
TooManyRetries_Early == xferRetries >= MAX_RETRY
\* if (xferRetries > MAX_RETRY) ERR("too many retries -- aborting")
TooManyRetries == xferRetries > MAX_RETRY

\* mutant of the assertion: compiled out
AssertRet_Off == TRUE
\* assert(ret >= 0); assert(ret <= remaining);
AssertRet == ret >= 0 /\ ret <= remaining

\* if (ret < remaining) {...}; the assertions; remaining -= ret; ptr += ret;
\* xferRetries++
Xfer_account ==
    /\ ~runAborted /\ xpc = "x_check"
    /\ IF ret < remaining /\ singleXferAttempt
       THEN \* exit(-1)
            /\ xpc' = "x_exited"
            /\ UNCHANGED <<runAborted, remaining, ptr, xferRetries, chunks>>
       ELSE IF ret < remaining /\ TooManyRetries
       THEN \* ERR(...): MPI_Abort
            /\ xpc' = "x_too_many_retries"
            /\ runAborted' = TRUE
            /\ UNCHANGED <<remaining, ptr, xferRetries, chunks>>
       ELSE IF ~AssertRet
       THEN \* abort()
            /\ xpc' = "x_assert_failed"
            /\ UNCHANGED <<runAborted, remaining, ptr, xferRetries, chunks>>
       ELSE /\ remaining' = remaining - ret
            /\ ptr' = ptr + ret
            /\ xferRetries' = xferRetries + 1
            /\ chunks' = Append(chunks, ret)
            /\ xpc' = "x_loop"
            /\ UNCHANGED runAborted
    /\ UNCHANGED <<sessionVars, parseVars, retval, sizeVars, op, pc, rc, createVars, access, length, singleXferAttempt,
                   ret, xrc, attempts, result, offset, lastOff, buffer>>

\* while (remaining > 0) is left: return (length)
Xfer_return ==
    /\ ~runAborted /\ xpc = "x_loop" /\ ~(remaining > 0)
    /\ xpc' = "x_returned"
    /\ result' = length
    /\ UNCHANGED <<sessionVars, parseVars, retval, sizeVars, op, pc, runAborted, rc, createVars, access, length,
                   singleXferAttempt, remaining, ptr, xferRetries, ret, xrc,
                   attempts, chunks, offset, lastOff, buffer>>

NextXfer == Xfer_dfs_write \/ Xfer_dfs_read \/ Xfer_account \/ Xfer_return

\* one DFS_Xfer call run to its end: the calling process keeps executing
\* and every engine call comes back
SpecXfer == InitXfer /\ [][NextXfer]_vars /\ WF_vars(NextXfer)

\* ------------------------------------------------------------- DFS_GetFileSize
\* the reduction operators of MPI_Allreduce over the contributions
RECURSIVE SumOver(_, _)
SumOver(f, S) ==
    IF S = {} THEN 0
    ELSE LET x == CHOOSE y \in S : TRUE IN f[x] + SumOver(f, S \ {x})
MinOver(f, S) == CHOOSE m \in {f[x] : x \in S} : \A x \in S : m <= f[x]
MaxOver(f, S) == CHOOSE m \in {f[x] : x \in S} : \A x \in S : m >= f[x]

InitGetFileSize ==
    /\ op = "GetFileSize"
    /\ ParseIdle
    /\ pc = [r \in Ranks |-> "g_lookup"]
    /\ runAborted = FALSE
    /\ rc = [r \in Ranks |-> 0]
    /\ CreateIdle /\ XferIdle /\ SessionIdle
    /\ filePerProc \in BOOLEAN
    /\ localSize \in [Ranks -> 0 .. MaxSize]
    /\ fsize = [r \in Ranks |-> 0]
    /\ entered1 = {} /\ send1 = [r \in Ranks |-> 0]
    /\ entered2 = {} /\ send2 = [r \in Ranks |-> 0]
    /\ tmpMin = [r \in Ranks |-> 0] /\ tmpMax = [r \in Ranks |-> 0]
    /\ warned = 0
    /\ gresult = [r \in Ranks |-> 0]

\* mutant of the failure path: exit(-1) as DCHECK does
GetFileSize_fail_Exit(r) ==
    /\ Goto(r, "g_exit")
    /\ gresult' = gresult
\* return -1
GetFileSize_fail(r) ==
    /\ Goto(r, "g_done")
    /\ gresult' = [gresult EXCEPT ![r] = -1]

\* rc = dfs_lookup(dfs, testFileName, O_RDONLY, &obj, NULL); if (rc) return -1
GetFileSize_dfs_lookup(r) ==
    /\ At(r, "g_lookup")
    /\ \E c \in RcSet :
        /\ rc' = [rc EXCEPT ![r] = c]
        /\ IF c # 0 THEN GetFileSize_fail(r)
           ELSE Goto(r, "g_size") /\ UNCHANGED gresult
    /\ UNCHANGED <<sessionVars, op, runAborted, createVars, parseVars, retval, xferVars, localSize, fsize,
                   entered1, send1, entered2, send2, tmpMin, tmpMax, warned>>

\* rc = dfs_get_size(dfs, obj, &fsize); if (rc) return -1
GetFileSize_dfs_get_size(r) ==
    /\ At(r, "g_size")
    /\ \E c \in RcSet :
        /\ rc' = [rc EXCEPT ![r] = c]
        /\ IF c # 0
           THEN GetFileSize_fail(r) /\ UNCHANGED fsize
           ELSE /\ Goto(r, "g_reduce1")
                /\ fsize' = [fsize EXCEPT ![r] = localSize[r]]
                /\ UNCHANGED gresult
    /\ UNCHANGED <<sessionVars, op, runAborted, createVars, parseVars, retval, xferVars, localSize,
                   entered1, send1, entered2, send2, tmpMin, tmpMax, warned>>

\* the rank enters the first MPI_Allreduce (MPI_SUM, or MPI_MIN) with &fsize
GetFileSize_Allreduce1_enter(r) ==
    /\ At(r, "g_reduce1")
    /\ entered1' = entered1 \cup {r}
    /\ send1' = [send1 EXCEPT ![r] = fsize[r]]
    /\ Goto(r, "g_inreduce1")
    /\ UNCHANGED <<sessionVars, op, runAborted, rc, createVars, parseVars, retval, xferVars, localSize, fsize,
                   entered2, send2, tmpMin, tmpMax, warned, gresult>>

\* mutant: the per-process total reduced with MPI_MAX
PerProcReduce_Max(f) == MaxOver(f, Ranks)
\* MPI_Allreduce(&fsize, &tmpSum, 1, MPI_LONG_LONG_INT, MPI_SUM, comm)
PerProcReduce(f) == SumOver(f, Ranks)

\* the first MPI_Allreduce returns: with filePerProc, fsize = tmpSum and
\* return (fsize); otherwise tmpMin is set
GetFileSize_Allreduce1_leave(r) ==
    /\ At(r, "g_inreduce1")
    /\ entered1 = Ranks
    /\ IF filePerProc
       THEN /\ fsize' = [fsize EXCEPT ![r] = PerProcReduce(send1)]
            /\ gresult' = [gresult EXCEPT ![r] = PerProcReduce(send1)]
            /\ Goto(r, "g_done")
            /\ UNCHANGED tmpMin
       ELSE /\ tmpMin' = [tmpMin EXCEPT ![r] = MinOver(send1, Ranks)]
            /\ Goto(r, "g_reduce2")
            /\ UNCHANGED <<fsize, gresult>>
    /\ UNCHANGED <<sessionVars, op, runAborted, rc, createVars, parseVars, retval, xferVars, localSize,
                   entered1, send1, entered2, send2, tmpMax, warned>>

\* the rank enters the second MPI_Allreduce (MPI_MAX) with &fsize
GetFileSize_Allreduce2_enter(r) ==
    /\ At(r, "g_reduce2")
    /\ entered2' = entered2 \cup {r}
    /\ send2' = [send2 EXCEPT ![r] = fsize[r]]
    /\ Goto(r, "g_inreduce2")
    /\ UNCHANGED <<sessionVars, op, runAborted, rc, createVars, parseVars, retval, xferVars, localSize, fsize,
                   entered1, send1, tmpMin, tmpMax, warned, gresult>>

\* mutant: the maximum is reported when the sizes disagree
SharedSize_Max(mn, mx, own) == IF mn # mx THEN mx ELSE own
\* if (tmpMin != tmpMax) { ...; fsize = tmpMin; }
SharedSize(mn, mx, own) == IF mn # mx THEN mn ELSE own

\* the second MPI_Allreduce returns; if (tmpMin != tmpMax) rank 0 warns and
\* fsize = tmpMin; return (fsize)
GetFileSize_Allreduce2_leave(r) ==
    /\ At(r, "g_inreduce2")
    /\ entered2 = Ranks
    /\ LET mx == MaxOver(send2, Ranks) IN
        /\ tmpMax' = [tmpMax EXCEPT ![r] = mx]
        /\ warned' = IF tmpMin[r] # mx /\ r = 0 THEN warned + 1 ELSE warned
        /\ fsize' = [fsize EXCEPT ![r] = SharedSize(tmpMin[r], mx, @)]
        /\ gresult' = [gresult EXCEPT ![r] = SharedSize(tmpMin[r], mx, fsize[r])]
    /\ Goto(r, "g_done")
    /\ UNCHANGED <<sessionVars, op, runAborted, rc, createVars, parseVars, retval, xferVars, localSize,
                   entered1, send1, entered2, send2, tmpMin>>

NextGetFileSize ==
    \E r \in Ranks :
        \/ GetFileSize_dfs_lookup(r)
        \/ GetFileSize_dfs_get_size(r)
        \/ GetFileSize_Allreduce1_enter(r)
        \/ GetFileSize_Allreduce1_leave(r)
        \/ GetFileSize_Allreduce2_enter(r)
        \/ GetFileSize_Allreduce2_leave(r)

\* ------------------------------------------------------------- DFS_Init
Uuids == 1 .. MaxUuid

\* daos_pool_local2global / daos_cont_local2global: the transportable bytes
\* of a handle: a tag for its kind, then the uuids it refers to
Local2Global(h) ==
    IF h.kind = "pool" THEN <<1, h.pool>> ELSE <<2, h.pool, h.cont>>
\* daos_pool_global2local accepts the bytes of a pool handle
PoolGlobValid(b) == Len(b) = 2 /\ b[1] = 1
PoolGlobal2Local(r, b) == PoolHandle(r, b[2])
\* daos_cont_global2local(poh, glob, &coh) accepts the bytes of a container
\* handle of the pool that poh is connected to
ContGlobValid(ph, b) ==
    Len(b) = 3 /\ b[1] = 2 /\ ph.kind = "pool" /\ ph.pool = b[2]
ContGlobal2Local(r, b) == ContHandle(r, b[2], b[3])

\* *handle of HandleDistribute(handle, type)
Handle(r, t) == IF t = "POOL_HANDLE" THEN poh[r] ELSE coh[r]

InitDFS ==
    /\ op = "Init"
    /\ ParseIdle
    /\ pc = [r \in Ranks |-> "i_opts"]
    /\ runAborted = FALSE
    /\ rc = [r \in Ranks |-> 0]
    /\ filePerProc = FALSE
    /\ CreateIdle /\ XferIdle /\ SizeIdle
    /\ optsSet \in BOOLEAN /\ oPool \in Uuids /\ oCont \in Uuids
    /\ destroy = FALSE
    /\ poh = [r \in Ranks |-> NoHandle]
    /\ coh = [r \in Ranks |-> NoHandle]
    /\ dfs = [r \in Ranks |-> NULL]
    /\ poolConn = {} /\ contOpen = {} /\ contExists \in BOOLEAN
    /\ mounted = {}
    /\ hdType = [r \in Ranks |-> "POOL_HANDLE"]
    /\ glob = [r \in Ranks |-> NoGlob]
    /\ lenSlot = [t \in HandleTypes |-> <<>>]
    /\ bufSlot = [t \in HandleTypes |-> <<>>]
    /\ rcSlot = <<>> /\ destroyRc = <<>>

\* ERR(...): report and MPI_Abort(MPI_COMM_WORLD, -1)
ERR(r) == Goto(r, "aborted") /\ runAborted' = TRUE

\* where HandleDistribute starts on rank r
HDEntry(r) == IF r = 0 THEN "hd_size" ELSE "hd_bcast_len"

\* if (o.pool == NULL || o.svcl == NULL || o.cont == NULL) ERR(...)
Init_check_options(r) ==
    /\ At(r, "i_opts")
    /\ IF ~optsSet THEN ERR(r)
       ELSE Goto(r, "i_daos_init") /\ UNCHANGED runAborted
    /\ UNCHANGED <<op, rc, createVars, parseVars, retval, xferVars, sizeVars, sessionVars>>

\* rc = daos_init(); DCHECK(rc, ...); then if (rank == 0) {...}
Init_daos_init(r) ==
    /\ At(r, "i_daos_init")
    /\ \E c \in RcSet :
        /\ rc' = [rc EXCEPT ![r] = c]
        /\ Goto(r, IF IsErr(c) THEN "i_exit"
                   ELSE IF r = 0 THEN "i_parse_pool" ELSE HDEntry(r))
    /\ UNCHANGED <<op, runAborted, createVars, parseVars, retval, xferVars, sizeVars, sessionVars>>

\* rc = uuid_parse(o.pool, pool_uuid); DCHECK(rc, ...)
Init_uuid_parse_pool(r) ==
    /\ At(r, "i_parse_pool")
    /\ \E c \in RcSet :
        /\ rc' = [rc EXCEPT ![r] = c]
        /\ Goto(r, IF IsErr(c) THEN "i_exit_coord" ELSE "i_parse_cont")
    /\ UNCHANGED <<op, runAborted, createVars, parseVars, retval, xferVars, sizeVars, sessionVars>>

\* rc = uuid_parse(o.cont, co_uuid); DCHECK(rc, ...)
Init_uuid_parse_cont(r) ==
    /\ At(r, "i_parse_cont")
    /\ \E c \in RcSet :
        /\ rc' = [rc EXCEPT ![r] = c]
        /\ Goto(r, IF IsErr(c) THEN "i_exit_coord" ELSE "i_svcl")
    /\ UNCHANGED <<op, runAborted, createVars, parseVars, retval, xferVars, sizeVars, sessionVars>>

\* svcl = daos_rank_list_parse(o.svcl, ":"); if (svcl == NULL) ERR(...)
Init_daos_rank_list_parse(r) ==
    /\ At(r, "i_svcl")
    /\ \/ ERR(r)
       \/ Goto(r, "i_connect") /\ UNCHANGED runAborted
    /\ UNCHANGED <<op, rc, createVars, parseVars, retval, xferVars, sizeVars, sessionVars>>

\* rc = daos_pool_connect(pool_uuid, ..., &poh, ...); DCHECK(rc, ...)
Init_daos_pool_connect(r) ==
    /\ At(r, "i_connect")
    /\ \E c \in RcSet :
        /\ rc' = [rc EXCEPT ![r] = c]
        /\ IF IsErr(c)
           THEN Goto(r, "i_exit_coord") /\ UNCHANGED <<poh, poolConn>>
           ELSE /\ Goto(r, "i_cont_open")
                /\ poh' = [poh EXCEPT ![r] = PoolHandle(r, oPool)]
                /\ poolConn' = poolConn \cup {r}
    /\ UNCHANGED <<op, runAborted, createVars, parseVars, retval, xferVars, sizeVars, optsSet,
                   oPool, oCont, destroy, coh, dfs, contOpen, contExists,
                   mounted, hdType, glob, lenSlot, bufSlot, rcSlot, destroyRc>>

\* what daos_cont_open can return
ContOpenRcs == IF contExists THEN {0, -1} ELSE {-DER_NONEXIST, -1}

\* the container is open on r: coh is set
ContOpened(r) ==
    /\ coh' = [coh EXCEPT ![r] = ContHandle(r, poh[r].pool, oCont)]
    /\ contOpen' = contOpen \cup {r}

\* rc = daos_cont_open(poh, co_uuid, ..., &coh, ...);
\* if (rc == -DER_NONEXIST) create it; otherwise DCHECK(rc, ...)
Init_daos_cont_open(r) ==
    /\ At(r, "i_cont_open")
    /\ \E c \in ContOpenRcs :
        /\ rc' = [rc EXCEPT ![r] = c]
        /\ IF c = -DER_NONEXIST
           THEN Goto(r, "i_cont_create") /\ UNCHANGED <<coh, contOpen>>
           ELSE IF IsErr(c)
           THEN Goto(r, "i_exit_coord") /\ UNCHANGED <<coh, contOpen>>
           ELSE ContOpened(r) /\ Goto(r, HDEntry(r))
    /\ UNCHANGED <<op, runAborted, createVars, parseVars, retval, xferVars, sizeVars, optsSet,
                   oPool, oCont, destroy, poh, dfs, poolConn, contExists,
                   mounted, hdType, glob, lenSlot, bufSlot, rcSlot, destroyRc>>

\* rc = daos_cont_create(poh, co_uuid, NULL, NULL); if (rc == 0) reopen,
\* otherwise DCHECK(rc, "Failed to create container")
Init_daos_cont_create(r) ==
    /\ At(r, "i_cont_create")
    /\ \E c \in RcSet :
        /\ rc' = [rc EXCEPT ![r] = c]
        /\ contExists' = (contExists \/ c = 0)
        /\ Goto(r, IF c = 0 THEN "i_cont_reopen" ELSE "i_exit_coord")
    /\ UNCHANGED <<op, runAborted, createVars, parseVars, retval, xferVars, sizeVars, optsSet,
                   oPool, oCont, destroy, poh, coh, dfs, poolConn, contOpen,
                   mounted, hdType, glob, lenSlot, bufSlot, rcSlot, destroyRc>>

\* rc = daos_cont_open(...) after the create; DCHECK(rc, ...)
Init_daos_cont_reopen(r) ==
    /\ At(r, "i_cont_reopen")
    /\ \E c \in RcSet :
        /\ rc' = [rc EXCEPT ![r] = c]
        /\ IF IsErr(c)
           THEN Goto(r, "i_exit_coord") /\ UNCHANGED <<coh, contOpen>>
           ELSE ContOpened(r) /\ Goto(r, HDEntry(r))
    /\ UNCHANGED <<op, runAborted, createVars, parseVars, retval, xferVars, sizeVars, optsSet,
                   oPool, oCont, destroy, poh, dfs, poolConn, contExists,
                   mounted, hdType, glob, lenSlot, bufSlot, rcSlot, destroyRc>>

\* ------------------------------------------------------------- HandleDistribute
\* if (rank == 0) { rc = daos_*_local2global(*handle, &global): with a NULL
\* buffer it stores the size needed in iov_buf_len; DCHECK(rc, ...) }
HD_local2global_size(r) ==
    /\ At(r, "hd_size") /\ r = 0
    /\ \E c \in RcSet :
        /\ rc' = [rc EXCEPT ![r] = c]
        /\ IF IsErr(c)
           THEN Goto(r, "i_exit_coord") /\ UNCHANGED glob
           ELSE /\ Goto(r, "hd_bcast_len")
                /\ glob' = [glob EXCEPT
                              ![r].len = Len(Local2Global(Handle(r, hdType[r])))]
    /\ UNCHANGED <<op, runAborted, createVars, parseVars, retval, xferVars, sizeVars, optsSet,
                   oPool, oCont, destroy, poh, coh, dfs, poolConn, contOpen,
                   contExists, mounted, hdType, lenSlot, bufSlot, rcSlot,
                   destroyRc>>

\* mutant: the length broadcast leaves the receiver's length as it was
BcastLen_Own(r) == glob[r].len
\* global.iov_buf_len after MPI_Bcast(&global.iov_buf_len, ...): rank 0's
BcastLen(r) == IF r = 0 THEN glob[r].len ELSE lenSlot[hdType[r]][1]

\* MPI_Bcast(&global.iov_buf_len, 1, MPI_UINT64_T, 0, MPI_COMM_WORLD);
\* global.iov_len = global.iov_buf_len; global.iov_buf = malloc(...);
\* if (global.iov_buf == NULL) ERR(...)
HD_MPI_Bcast_len(r) ==
    /\ At(r, "hd_bcast_len")
    /\ r # 0 => lenSlot[hdType[r]] # <<>>
    /\ lenSlot' = IF r = 0 THEN [lenSlot EXCEPT ![hdType[r]] = <<glob[r].len>>]
                  ELSE lenSlot
    /\ glob' = [glob EXCEPT ![r].len = BcastLen(r)]
    /\ \/ ERR(r)
       \/ /\ Goto(r, IF r = 0 THEN "hd_serialize" ELSE "hd_bcast_buf")
          /\ UNCHANGED runAborted
    /\ UNCHANGED <<op, rc, createVars, parseVars, retval, xferVars, sizeVars, optsSet,
                   oPool, oCont, destroy, poh, coh, dfs, poolConn, contOpen,
                   contExists, mounted, hdType, bufSlot, rcSlot, destroyRc>>

\* if (rank == 0) { rc = daos_*_local2global(*handle, &global): fills the
\* buffer; DCHECK(rc, ...) }
HD_local2global(r) ==
    /\ At(r, "hd_serialize") /\ r = 0
    /\ \E c \in RcSet :
        /\ rc' = [rc EXCEPT ![r] = c]
        /\ IF IsErr(c)
           THEN Goto(r, "i_exit_coord") /\ UNCHANGED glob
           ELSE /\ Goto(r, "hd_bcast_buf")
                /\ glob' = [glob EXCEPT
                              ![r].buf = Local2Global(Handle(r, hdType[r]))]
    /\ UNCHANGED <<op, runAborted, createVars, parseVars, retval, xferVars, sizeVars, optsSet,
                   oPool, oCont, destroy, poh, coh, dfs, poolConn, contOpen,
                   contExists, mounted, hdType, lenSlot, bufSlot, rcSlot,
                   destroyRc>>

\* mutant: the payload broadcast is one byte short
BcastCount_Short(r) == glob[r].len - 1
\* the count argument of MPI_Bcast(global.iov_buf, global.iov_buf_len, ...)
BcastCount(r) == glob[r].len

\* the code after HandleDistribute returns: the second HandleDistribute,
\* then dfs_mount
HD_return(r) ==
    IF hdType[r] = "POOL_HANDLE"
    THEN Goto(r, HDEntry(r)) /\ hdType' = [hdType EXCEPT ![r] = "CONT_HANDLE"]
    ELSE Goto(r, "i_mount") /\ UNCHANGED hdType

\* MPI_Bcast(global.iov_buf, global.iov_buf_len, MPI_BYTE, 0, ...); on rank 0
\* then free(global.iov_buf) and return
HD_MPI_Bcast_buf(r) ==
    /\ At(r, "hd_bcast_buf")
    /\ r # 0 => bufSlot[hdType[r]] # <<>>
    /\ IF r = 0
       THEN /\ bufSlot' = [bufSlot EXCEPT
                  ![hdType[r]] = <<SubSeq(glob[r].buf, 1, BcastCount(r))>>]
            /\ glob' = [glob EXCEPT ![r] = NoGlob]
            /\ HD_return(r)
       ELSE /\ glob' = [glob EXCEPT
                  ![r].buf = SubSeq(bufSlot[hdType[r]][1], 1, BcastCount(r))]
            /\ Goto(r, "hd_deserialize")
            /\ UNCHANGED <<bufSlot, hdType>>
    /\ UNCHANGED <<op, runAborted, rc, createVars, parseVars, retval, xferVars, sizeVars, optsSet,
                   oPool, oCont, destroy, poh, coh, dfs, poolConn, contOpen,
                   contExists, mounted, lenSlot, rcSlot, destroyRc>>

\* if (rank != 0) { rc = daos_pool_global2local(global, handle), or
\* daos_cont_global2local(poh, global, handle); DCHECK(rc, ...) };
\* free(global.iov_buf)
HD_global2local(r) ==
    /\ At(r, "hd_deserialize") /\ r # 0
    /\ \E c \in RcSet :
        /\ rc' = [rc EXCEPT ![r] = c]
        /\ IF hdType[r] = "POOL_HANDLE"
           THEN ~PoolGlobValid(glob[r].buf) => IsErr(c)
           ELSE ~ContGlobValid(poh[r], glob[r].buf) => IsErr(c)
        /\ IF IsErr(c)
           THEN /\ Goto(r, "i_exit")
                /\ UNCHANGED <<poh, coh, poolConn, contOpen, glob, hdType>>
           ELSE /\ IF hdType[r] = "POOL_HANDLE"
                   THEN /\ poh' = [poh EXCEPT
                                     ![r] = PoolGlobal2Local(r, glob[r].buf)]
                        /\ poolConn' = poolConn \cup {r}
                        /\ UNCHANGED <<coh, contOpen>>
                   ELSE /\ coh' = [coh EXCEPT
                                     ![r] = ContGlobal2Local(r, glob[r].buf)]
                        /\ contOpen' = contOpen \cup {r}
                        /\ UNCHANGED <<poh, poolConn>>
                /\ glob' = [glob EXCEPT ![r] = NoGlob]
                /\ HD_return(r)
    /\ UNCHANGED <<op, runAborted, createVars, parseVars, retval, xferVars, sizeVars, optsSet,
                   oPool, oCont, destroy, dfs, contExists, mounted, lenSlot,
                   bufSlot, rcSlot, destroyRc>>

\* rc = dfs_mount(poh, coh, O_RDWR, &dfs); DCHECK(rc, ...)
Init_dfs_mount(r) ==
    /\ At(r, "i_mount")
    /\ \E c \in RcSet :
        /\ (poh[r].kind # "pool" \/ coh[r].kind # "cont") => IsErr(c)
        /\ rc' = [rc EXCEPT ![r] = c]
        /\ IF IsErr(c)
           THEN Goto(r, "i_exit") /\ UNCHANGED <<dfs, mounted>>
           ELSE /\ Goto(r, "i_done")
                /\ dfs' = [dfs EXCEPT ![r] = <<poh[r], coh[r]>>]
                /\ mounted' = mounted \cup {r}
    /\ UNCHANGED <<op, runAborted, createVars, parseVars, retval, xferVars, sizeVars, optsSet,
                   oPool, oCont, destroy, poh, coh, poolConn, contOpen,
                   contExists, hdType, glob, lenSlot, bufSlot, rcSlot, destroyRc>>

NextInit ==
    \E r \in Ranks :
        \/ Init_check_options(r)
        \/ Init_daos_init(r)
        \/ Init_uuid_parse_pool(r)
        \/ Init_uuid_parse_cont(r)
        \/ Init_daos_rank_list_parse(r)
        \/ Init_daos_pool_connect(r)
        \/ Init_daos_cont_open(r)
        \/ Init_daos_cont_create(r)
        \/ Init_daos_cont_reopen(r)
        \/ HD_local2global_size(r)
        \/ HD_MPI_Bcast_len(r)
        \/ HD_local2global(r)
        \/ HD_MPI_Bcast_buf(r)
        \/ HD_global2local(r)
        \/ Init_dfs_mount(r)

\* ------------------------------------------------------------- DFS_Finalize
InitFinalize ==
    /\ op = "Finalize"
    /\ ParseIdle
    /\ pc = [r \in Ranks |-> "f_umount"]
    /\ runAborted = FALSE
    /\ rc = [r \in Ranks |-> 0]
    /\ filePerProc = FALSE
    /\ CreateIdle /\ XferIdle /\ SizeIdle
    /\ SessionUp
    /\ destroy \in BOOLEAN

\* rc = dfs_umount(dfs); DCHECK(rc, ...): exit(-1) on failure
Finalize_dfs_umount(r) ==
    /\ At(r, "f_umount")
    /\ \E c \in RcSet :
        /\ rc' = [rc EXCEPT ![r] = c]
        /\ IF IsErr(c)
           THEN Goto(r, "f_exit_umount") /\ UNCHANGED mounted
           ELSE Goto(r, "f_close") /\ mounted' = mounted \ {r}
    /\ UNCHANGED <<op, runAborted, createVars, parseVars, retval, xferVars, sizeVars, optsSet,
                   oPool, oCont, destroy, poh, coh, dfs, poolConn, contOpen,
                   contExists, hdType, glob, lenSlot, bufSlot, rcSlot, destroyRc>>

\* rc = daos_cont_close(coh, NULL); DCHECK(rc, ...); then
\* if (rank == 0 && o.destroy) the destroy, else straight to MPI_Bcast
Finalize_daos_cont_close(r) ==
    /\ At(r, "f_close")
    /\ \E c \in RcSet :
        /\ rc' = [rc EXCEPT ![r] = c]
        /\ IF IsErr(c)
           THEN Goto(r, "f_exit_close") /\ UNCHANGED contOpen
           ELSE /\ Goto(r, IF r = 0 /\ destroy THEN "f_destroy" ELSE "f_bcast")
                /\ contOpen' = contOpen \ {r}
    /\ UNCHANGED <<op, runAborted, createVars, parseVars, retval, xferVars, sizeVars, optsSet,
                   oPool, oCont, destroy, poh, coh, dfs, poolConn,
                   contExists, mounted, hdType, glob, lenSlot, bufSlot, rcSlot,
                   destroyRc>>

\* uuid_parse(o.cont, uuid); rc = daos_cont_destroy(poh, uuid, 1, NULL)
Finalize_daos_cont_destroy(r) ==
    /\ At(r, "f_destroy")
    /\ \E c \in RcSet :
        /\ rc' = [rc EXCEPT ![r] = c]
        /\ destroyRc' = <<c>>
        /\ contExists' = IF c = 0 THEN FALSE ELSE contExists
    /\ Goto(r, "f_bcast")
    /\ UNCHANGED <<op, runAborted, createVars, parseVars, retval, xferVars, sizeVars, optsSet,
                   oPool, oCont, destroy, poh, coh, dfs, poolConn, contOpen,
                   mounted, hdType, glob, lenSlot, bufSlot, rcSlot>>

\* mutant: the status is not broadcast, every process keeps its own rc
BcastRc_Local(r) == rc[r]
\* MPI_Bcast(&rc, 1, MPI_INT, 0, MPI_COMM_WORLD): the value rc has after it
BcastRc(r) == IF r = 0 THEN rc[r] ELSE rcSlot[1]

\* MPI_Bcast(&rc, ...): the root sends its rc, the others receive it
Finalize_MPI_Bcast(r) ==
    /\ At(r, "f_bcast")
    /\ r # 0 => rcSlot # <<>>
    /\ rcSlot' = IF r = 0 THEN <<rc[r]>> ELSE rcSlot
    /\ rc' = [rc EXCEPT ![r] = BcastRc(r)]
    /\ Goto(r, "f_check")
    /\ UNCHANGED <<op, runAborted, createVars, parseVars, retval, xferVars, sizeVars, optsSet,
                   oPool, oCont, destroy, poh, coh, dfs, poolConn, contOpen,
                   contExists, mounted, hdType, glob, lenSlot, bufSlot,
                   destroyRc>>

\* if (rc) DCHECK(rc, "Failed to destroy container %s (%d)", o.cont, rc)
Finalize_check_destroy(r) ==
    /\ At(r, "f_check")
    /\ Goto(r, IF rc[r] # 0 /\ IsErr(rc[r]) THEN "f_exit_destroy"
               ELSE "f_disconnect")
    /\ UNCHANGED <<op, runAborted, rc, createVars, parseVars, retval, xferVars, sizeVars,
                   sessionVars>>

\* daos_pool_disconnect(poh, NULL); DCHECK(rc, ...) on the rc of before
Finalize_daos_pool_disconnect(r) ==
    /\ At(r, "f_disconnect")
    /\ \/ poolConn' = poolConn \ {r}
       \/ poolConn' = poolConn
    /\ Goto(r, IF IsErr(rc[r]) THEN "f_exit_disconnect" ELSE "f_fini")
    /\ UNCHANGED <<op, runAborted, rc, createVars, parseVars, retval, xferVars, sizeVars, optsSet,
                   oPool, oCont, destroy, poh, coh, dfs, contOpen,
                   contExists, mounted, hdType, glob, lenSlot, bufSlot, rcSlot,
                   destroyRc>>

\* rc = daos_fini(); DCHECK(rc, ...)
Finalize_daos_fini(r) ==
    /\ At(r, "f_fini")
    /\ \E c \in RcSet :
        /\ rc' = [rc EXCEPT ![r] = c]
        /\ Goto(r, IF IsErr(c) THEN "f_exit_fini" ELSE "f_done")
    /\ UNCHANGED <<op, runAborted, createVars, parseVars, retval, xferVars, sizeVars, sessionVars>>

NextFinalize ==
    \E r \in Ranks :
        \/ Finalize_dfs_umount(r)
        \/ Finalize_daos_cont_close(r)
        \/ Finalize_daos_cont_destroy(r)
        \/ Finalize_MPI_Bcast(r)
        \/ Finalize_check_destroy(r)
        \/ Finalize_daos_pool_disconnect(r)
        \/ Finalize_daos_fini(r)

\* ================================================================ specification
Init ==
    \/ InitParse \/ InitDFS \/ InitCreate \/ InitOpen \/ InitMkdir \/ InitXfer \/ InitGetFileSize
    \/ InitFinalize
Next ==
    \/ NextParse \/ NextInit \/ NextCreate \/ NextOpen \/ NextMkdir \/ NextXfer \/ NextGetFileSize
    \/ NextFinalize
Spec == Init /\ [][Next]_vars

\* ================================================================ properties
SharedCreate == op = "Create" /\ ~filePerProc
AllReturned == \A r \in Ranks : pc[r] = "c_done"
CreateReturned == nExcl[0] = 1 /\ pc[0] \in {"c_barrier", "c_inbarrier", "c_done"}

C2_PeerOpensAfterCreateReturned ==
    SharedCreate =>
        \A p \in Peers : (pc[p] = "c_open" \/ nPlain[p] > 0) =>
            (CreateReturned /\ pc[0] # "c_barrier")

C2_Witness == SharedCreate /\ \E p \in Peers : nPlain[p] = 1 /\ pc[0] = "c_inbarrier"

\* C3 (as stated): with a shared file, once rank 0's exclusive create has
\* completed, with or without success, rank 0 enters the barrier before it
\* returns from DFS_Create.
C3_CoordinatorReachesBarrier ==
    (SharedCreate /\ nExcl[0] = 1 /\ pc[0] = "c_done") => 0 \in barrier

RECURSIVE SumSeq(_)
SumSeq(q) == IF q = <<>> THEN 0 ELSE q[1] + SumSeq(Tail(q))

\* remaining as it was when the i-th accounted attempt was made
RemainingBefore(i) == length - SumSeq(SubSeq(chunks, 1, i - 1))
XferSucceeded == xpc = "x_returned" /\ result # -1

ReadWithRetries == op = "Xfer" /\ access = "READ" /\ ~singleXferAttempt

\* C5 (as stated): a read without single-attempt mode never makes more than
\* MAX_RETRY attempts: it has returned length or aborted by then.
C5_Original ==
    ReadWithRetries => attempts <= MAX_RETRY

\* C5 (amended): a read without single-attempt mode makes at most
\* MAX_RETRY + 2 attempts; it aborts with too many retries exactly when
\* attempt MAX_RETRY + 2 is still short, and never earlier; a call that
\* returns has accounted for length bytes and returns length.
C5_RetryBound ==
    ReadWithRetries =>
        /\ attempts <= MAX_RETRY + 2
        /\ xpc = "x_too_many_retries" =>
              (attempts = MAX_RETRY + 2 /\ ret < remaining /\ runAborted)
        /\ (xpc = "x_loop" /\ attempts = MAX_RETRY + 2) => remaining = 0
        /\ xpc = "x_returned" => (result = length /\ SumSeq(chunks) = length)
        /\ xpc # "x_exited"

C5_Witness ==
    /\ ReadWithRetries /\ xpc = "x_returned" /\ result = length
    /\ attempts = MAX_RETRY + 2 /\ length > 0

SizeReturned(r) == op = "GetFileSize" /\ pc[r] = "g_done" /\ gresult[r] # -1

\* C6: with filePerProc, DFS_GetFileSize returns on every rank that gets
\* through the all-reduce the sum of all ranks' local sizes (every rank's
\* lookup and size read have then succeeded), which no rank reports as an
\* error and which is the same on every rank.
C6_PerProcSum ==
    (op = "GetFileSize" /\ filePerProc) =>
        \A r \in Ranks : SizeReturned(r) =>
            /\ gresult[r] = SumOver(localSize, Ranks)
            /\ \A q \in Ranks : rc[q] = 0 /\ pc[q] \notin {"g_lookup", "g_size"}

C6_Witness ==
    /\ op = "GetFileSize" /\ filePerProc
    /\ \A r \in Ranks : SizeReturned(r)
    /\ \E r, q \in Ranks : localSize[r] # localSize[q]
    /\ \A r \in Ranks : localSize[r] > 0

\* C7: with a shared file, DFS_GetFileSize returns on every rank that gets
\* through the all-reduces the minimum of the local sizes; rank 0 has warned
\* exactly when the minimum differs from the maximum, and nothing aborts.
C7_SharedMinWithWarning ==
    (op = "GetFileSize" /\ ~filePerProc) =>
        /\ \A r \in Ranks : SizeReturned(r) =>
              gresult[r] = MinOver(localSize, Ranks)
        /\ SizeReturned(0) =>
              (warned = 1 <=> MinOver(localSize, Ranks) # MaxOver(localSize, Ranks))
        /\ warned <= 1
        /\ warned = 1 => SizeReturned(0)
        /\ ~runAborted

C7_Witness ==
    /\ op = "GetFileSize" /\ ~filePerProc
    /\ \A r \in Ranks : SizeReturned(r)
    /\ warned = 1
    /\ \E r \in Ranks : localSize[r] > gresult[r]

PastDestroyCheck(r) ==
    pc[r] \in {"f_disconnect", "f_exit_disconnect", "f_fini", "f_exit_fini", "f_done"}

\* C8: in DFS_Finalize with destroy requested, every process that comes out
\* of the broadcast holds rank 0's daos_cont_destroy status; it exits on the
\* destroy check exactly when that status is a failure, and otherwise goes
\* on: all processes that reach the check surface the same outcome.
C8_DestroyStatusBroadcast ==
    (op = "Finalize" /\ destroy) =>
        \A r \in Ranks :
            /\ pc[r] \in {"f_check", "f_exit_destroy"} =>
                  (destroyRc # <<>> /\ rc[r] = destroyRc[1])
            /\ pc[r] = "f_exit_destroy" => IsErr(destroyRc[1])
            /\ PastDestroyCheck(r) => (destroyRc = <<0>> /\ ~contExists)
            /\ pc[r] # "f_exit_disconnect"

C8_Witness ==
    /\ op = "Finalize" /\ destroy /\ destroyRc = <<-1>>
    /\ \A r \in Ranks : pc[r] = "f_exit_destroy"

InitDone(r) == op = "Init" /\ pc[r] = "i_done"

\* C9: when DFS_Init has completed on a process, its pool and container
\* handles are its own local handles of the pool and container that rank 0
\* connected to and opened (those of o.pool and o.cont); a peer's handle is
\* the deserialization of exactly the bytes rank 0 serialized from its own
\* handle, and the mount is made of these two handles.
C9_SameSessionEverywhere ==
    op = "Init" =>
        \A r \in Ranks :
            /\ (r # 0 /\ pc[r] = "hd_deserialize") =>
                  glob[r].buf = Local2Global(Handle(0, hdType[r]))
            /\ InitDone(r) =>
                  /\ poh[0] = PoolHandle(0, oPool)
                  /\ coh[0] = ContHandle(0, oPool, oCont)
                  /\ r # 0 => poh[r] = PoolGlobal2Local(r, Local2Global(poh[0]))
                  /\ r # 0 => coh[r] = ContGlobal2Local(r, Local2Global(coh[0]))
                  /\ poh[r].owner = r /\ poh[r].pool = poh[0].pool
                  /\ coh[r].owner = r /\ coh[r].pool = coh[0].pool
                  /\ coh[r].cont = coh[0].cont
                  /\ dfs[r] = <<poh[r], coh[r]>>
                  /\ r \in mounted

C9_Witness ==
    /\ \A r \in Ranks : InitDone(r)
    /\ oPool # oCont

CoordinatorFailed == op = "Init" /\ pc[0] = "i_exit_coord"
InBcast(r) == pc[r] \in {"hd_bcast_len", "hd_bcast_buf"}

\* C10 (as stated): when one of rank 0's session-establishment steps fails,
\* no process completes DFS_Init, and no peer is left in a broadcast of
\* HandleDistribute once nothing more can happen.
C10_CoordinatorFailureAbortsRun ==
    CoordinatorFailed =>
        /\ \A r \in Ranks : pc[r] # "i_done"
        /\ (~ENABLED Next) => \A p \in Peers : ~InBcast(p)

\* the part of C10 that the code keeps: no process completes DFS_Init
C10_NoSessionAfterFailure ==
    CoordinatorFailed => \A r \in Ranks : pc[r] # "i_done" /\ r \notin mounted

\* a rank has returned from DFS_Create or DFS_Open to its caller
OpenReturned(r) ==
    \/ op = "Create" /\ pc[r] = "c_done"
    \/ op = "Open" /\ pc[r] = "o_done"

\* C11 (as stated): DFS_Create and DFS_Open never return to their caller
\* after a failed parent lookup or a failed create/open: a rank that has
\* returned holds a valid object handle and its last call succeeded.
C11_FailureNeverReturns ==
    \A r \in Ranks : OpenReturned(r) => (~IsErr(rc[r]) /\ obj[r] # NULL)

\* C12 (as stated): a failed write is fatal immediately: the run is aborted
\* and DFS_Xfer does not return a value to its caller.
C12_FailedWriteIsFatal ==
    (op = "Xfer" /\ access = "WRITE" /\ xrc # 0) =>
        (runAborted /\ xpc # "x_returned")

\* the half of C12 that holds: a failed write is not retried
C12_FailedWriteNotRetried ==
    (op = "Xfer" /\ access = "WRITE" /\ xrc # 0) =>
        (attempts = 1 /\ xpc = "x_returned" /\ result = -1)

\* DFS_Xfer is over: it returned, or the process exited or aborted
XferTerminated ==
    xpc \in {"x_returned", "x_exited", "x_too_many_retries", "x_assert_failed"}

\* C17: every DFS_Xfer call terminates whatever the engine returns: it
\* makes at most MAX_RETRY + 2 attempts, and in single-attempt mode one
\* attempt only (none for an empty request), then returns, exits or aborts.
C17_XferTerminates ==
    /\ [](op = "Xfer" =>
            /\ attempts <= MAX_RETRY + 2
            /\ singleXferAttempt => attempts <= 1
            /\ (singleXferAttempt /\ XferTerminated /\ length > 0)
                    => attempts = 1)
    /\ (op = "Xfer") ~> XferTerminated
C17_Witness ==
    /\ op = "Xfer" /\ access = "READ" /\ ~singleXferAttempt
    /\ xpc = "x_returned" /\ result = length
    /\ attempts = MAX_RETRY + 2 /\ xrc # 0

\* C18 (as stated): after k bytes have been transferred the next attempt
\* targets file offset (request offset + k) and buffer position k, so that
\* after a successful read buffer byte i holds file byte (offset + i).
C18_CursorsAdvanceTogether ==
    op = "Xfer" =>
        /\ xpc = "x_check" => lastOff = offset + ptr
        /\ (access = "READ" /\ xpc = "x_returned" /\ xrc = 0) =>
                \A i \in 1 .. length : buffer[i] = offset + (i - 1)

\* the components of a path: its maximal runs of non-separator characters
RECURSIVE Components(_)
Components(p) ==
    IF p = <<>> THEN <<>>
    ELSE IF p[1] = "/" THEN Components(Tail(p))
    ELSE LET S == {i \in 1 .. Len(p) : p[i] = "/"}
             e == IF S = {} THEN Len(p) + 1
                  ELSE CHOOSE i \in S : \A j \in S : i <= j
         IN  <<SubSeq(p, 1, e - 1)>> \o Components(SubSeq(p, e, Len(p)))

ParseSucceeded == op = "Parse" /\ parsed # <<>> /\ parsed[1].rc = 0

\* C13 (as stated): for a non-root path the leaf is the final component and
\* the parent is absolute: the directory component when that is absolute,
\* the working directory when it is ".", otherwise the working directory,
\* a separator and the directory component; for "/" the parent is "/" and
\* there is no leaf.
C13_LeafAndAbsoluteParent ==
    ParseSucceeded =>
        LET D == dirname(path)
            C == Components(path)
        IN  IF path = <<"/">>
            THEN parsed[1].cont_name = <<"/">> /\ parsed[1].obj_name = NULL
            ELSE C # <<>> =>
                /\ parsed[1].obj_name = C[Len(C)]
                /\ parsed[1].cont_name[1] = "/"
                /\ parsed[1].cont_name =
                        IF D[1] = "/" THEN D
                        ELSE IF D = <<".">> THEN cwd
                        ELSE cwd \o <<"/">> \o D

\* what does hold of parse_filename's outputs
C13_Holds ==
    ParseSucceeded =>
        LET D == dirname(path)
            C == Components(path)
        IN  IF path = <<"/">>
            THEN parsed[1].cont_name = <<"/">> /\ parsed[1].obj_name = NULL
            ELSE C # <<>> =>
                /\ parsed[1].obj_name = C[Len(C)]
                /\ parsed[1].cont_name[1] = "/"
                /\ D[1] # "." =>
                        parsed[1].cont_name =
                            IF D[1] = "/" THEN D ELSE cwd \o <<"/">> \o D
                /\ D = <<".">> => parsed[1].cont_name = cwd

\* a lookup or size read of DFS_GetFileSize failed on rank r
SizeFailed(r) == op = "GetFileSize" /\ rc[r] # 0

\* C14 (as stated): a rank whose lookup or size read fails returns -1 and
\* the run is not aborted, and no other operation reports a failure as a
\* value: DFS_Mkdir, for one, does not return after a failed step.
C14_Original ==
    /\ \A r \in Ranks : SizeFailed(r) =>
            (pc[r] = "g_done" /\ gresult[r] = -1 /\ ~runAborted)
    /\ \A r \in Ranks : (op = "Mkdir" /\ rc[r] # 0) => pc[r] # "m_done"

\* C14 (amended): a rank whose lookup or size read fails returns -1 and the
\* run is not aborted; DFS_Mkdir reports a failed step as the value -1 too.
C14_FailureReturnsSentinel ==
    /\ \A r \in Ranks : SizeFailed(r) =>
            (pc[r] = "g_done" /\ gresult[r] = -1 /\ ~runAborted)
    /\ \A r \in Ranks : (op = "Mkdir" /\ rc[r] # 0) =>
            (pc[r] = "m_done" /\ retval[r] = -1 /\ ~runAborted)
C14_Witness ==
    \E r, q \in Ranks :
        /\ SizeFailed(r) /\ gresult[r] = -1
        /\ q # r /\ pc[q] = "g_inreduce1"

\* where rank 0 obtains its handles: daos_pool_connect, daos_cont_open
ConnectSteps == {"i_connect", "i_cont_open", "i_cont_reopen"}

\* C15: HandleDistribute runs in a fixed order in every process: length
\* broadcast, buffer of exactly that length, serialization on rank 0,
\* payload broadcast, deserialization on the peers. Every process is in the
\* payload broadcast with a buffer of the length rank 0 announced, and rank
\* 0 never deserializes: its handles change only where it connects.
C15_TwoPhaseOrder ==
    /\ [](op = "Init" =>
            /\ \A t \in HandleTypes :
                /\ lenSlot[t] # <<>> =>
                        lenSlot[t][1] = Len(Local2Global(Handle(0, t)))
                /\ bufSlot[t] # <<>> =>
                        /\ lenSlot[t] # <<>>
                        /\ Len(bufSlot[t][1]) = lenSlot[t][1]
            /\ \A r \in Ranks :
                /\ pc[r] \in {"hd_serialize", "hd_bcast_buf", "hd_deserialize"} =>
                        /\ lenSlot[hdType[r]] # <<>>
                        /\ glob[r].len = lenSlot[hdType[r]][1]
                /\ pc[r] = "hd_serialize" => (r = 0 /\ bufSlot[hdType[r]] = <<>>)
                /\ (pc[r] = "hd_bcast_buf" /\ r = 0) =>
                        /\ glob[r].buf = Local2Global(Handle(0, hdType[r]))
                        /\ bufSlot[hdType[r]] = <<>>
                /\ pc[r] = "hd_deserialize" =>
                        /\ r # 0
                        /\ bufSlot[hdType[r]] # <<>>
                        /\ Len(glob[r].buf) = glob[r].len)
    /\ [][(op = "Init" /\ (poh'[0] # poh[0] \/ coh'[0] # coh[0]))
            => pc[0] \in ConnectSteps]_vars
C15_Witness ==
    /\ op = "Init"
    /\ \E r \in Peers :
        /\ pc[r] = "hd_deserialize" /\ hdType[r] = "CONT_HANDLE"
        /\ glob[r].len = 3
    /\ pc[0] = "i_mount"

\* C16 (as stated): with filePerProc a rank's DFS_Create completes without
\* waiting for any other rank: a rank inside MPI_Barrier can always leave
\* it, and when nothing more can happen every rank has returned.
C16_PerProcIndependent ==
    (op = "Create" /\ filePerProc /\ ~runAborted) =>
        /\ \A r \in Ranks : pc[r] = "c_inbarrier" => BarrierComplete(r)
        /\ ~ENABLED Next => \A r \in Ranks : pc[r] = "c_done"

\* the second half of C16 taken alone: a failed create on one rank leaves
\* no other rank blocked
C16_FailureNeverBlocks ==
    (op = "Create" /\ filePerProc /\ ~runAborted /\ ~ENABLED Next) =>
        \A r \in Ranks : pc[r] = "c_done"

\* C19 (as stated): the collective DFS_GetFileSize returns on every rank
\* even when the lookup or size read fails on some of them: once nothing
\* more can happen, no rank is left inside an all-reduce.
C19_SizeQueryAlwaysReturns ==
    (op = "GetFileSize" /\ ~ENABLED Next) =>
        \A r \in Ranks : pc[r] = "g_done"

\* rank r is still running DFS_Finalize with its mount or container handle
StillAttached(r) ==
    /\ pc[r] \in {"f_umount", "f_close"}
    /\ r \in mounted \cup contOpen

\* C20 (as stated): rank 0 destroys the container only after every rank has
\* unmounted and closed it: the container is never destroyed while a rank
\* still has it mounted or open.
C20_DestroyAfterAllClosed ==
    (op = "Finalize" /\ ~contExists) => \A r \in Ranks : ~StillAttached(r)

\* an assertion of DFS_Create, DFS_Open or DFS_Mkdir failed on rank r
AssertFailed(r) ==
    pc[r] \in {"c_assert_failed", "o_assert_failed", "m_assert_failed"}

\* C21 (as stated): assert(dir_name) and assert(name) hold whenever
\* parse_filename has returned success, for every path including "/": no
\* rank ever fails one of them.
C21_AssertionsHold == \A r \in Ranks : ~AssertFailed(r)

\* what does hold: the assertions fail for the root path only
C21_OnlyRootFails ==
    \A r \in Ranks : AssertFailed(r) => (path = <<"/">> /\ rc[r] = 0)

\* C22 (as stated): when the directory component is relative and not ".",
\* the buffer allocated for the resolved parent holds everything written
\* into it, terminator included, and the heap stays intact.
C22_NewDirLargeEnough ==
    (ParseSucceeded /\ UsesNewDir(dirname(path))) =>
        /\ NewDirSize(dirname(path)) >= Written(NewDir(dirname(path)))
        /\ parsed[1].heap = "intact"

\* what does hold: the allocation suffices when the component starts with
\* a dot, and is one byte short otherwise
C22_OneByteShort ==
    (ParseSucceeded /\ UsesNewDir(dirname(path))) =>
        LET D == dirname(path)
        IN  IF D[1] = "."
            THEN NewDirSize(D) >= Written(NewDir(D))
            ELSE Written(NewDir(D)) = NewDirSize(D) + 1

====
